---- MODULE Spec2Model ----
(***************************************************************************)
(* Model of Python/BoundaryData.py of AcousticBEM: the containers          *)
(* BoundaryCondition and BoundaryIncidence, the BoundarySolution with its  *)
(* derived quantities, and the SampleSolution.                             *)
(*                                                                         *)
(* Numbers are exact complex rationals [re, im, d] (value (re + i im)/d);  *)
(* d = 0 stands for the non-finite results (Inf/NaN) numpy produces for a  *)
(* division by zero.  Rounding of complex64 is not modelled.               *)
(***************************************************************************)
EXTENDS Integers, Sequences, FiniteSets, TLC

VARIABLES parent, sol, sample, out, calls

vars == <<parent, sol, sample, out, calls>>

\* Largest number of boundary elements / container size explored.
MaxN == 2

\* Python's None.
None == [type |-> "None"]

\* Outcome of a call: a returned value or a raised exception.
Value(v) == [kind |-> "value", val |-> v]
Raise(e) == [kind |-> "error", val |-> e]

(***************************************************************************)
(* Complex arithmetic.                                                     *)
(***************************************************************************)
Abs(n) == IF n < 0 THEN -n ELSE n

RECURSIVE Gcd(_, _)
Gcd(a, b) == IF b = 0 THEN a ELSE Gcd(b, a % b)

NonFinite == [re |-> 0, im |-> 0, d |-> 0]

Norm(re, im, d) ==
    IF d = 0 THEN NonFinite
    ELSE LET s == IF d < 0 THEN -1 ELSE 1
             g == Gcd(Gcd(Abs(re), Abs(im)), Abs(d))
         IN  [re |-> (s * re) \div g, im |-> (s * im) \div g, d |-> (s * d) \div g]

C(re, im) == [re |-> re, im |-> im, d |-> 1]
Real(n) == C(n, 0)
Zero == C(0, 0)
Half == [re |-> 1, im |-> 0, d |-> 2]

IsFinite(x) == x.d # 0
IsZero(x) == x.d # 0 /\ x.re = 0 /\ x.im = 0

CAdd(x, y) ==
    IF x.d = 0 \/ y.d = 0 THEN NonFinite
    ELSE Norm(x.re * y.d + y.re * x.d, x.im * y.d + y.im * x.d, x.d * y.d)

CMul(x, y) ==
    IF x.d = 0 \/ y.d = 0 THEN NonFinite
    ELSE Norm(x.re * y.re - x.im * y.im, x.re * y.im + x.im * y.re, x.d * y.d)

CConj(x) == [x EXCEPT !.im = -x.im]

\* numpy scalar division: a zero divisor gives Inf/NaN (with a warning), no exception.
CDiv(x, y) ==
    IF x.d = 0 \/ y.d = 0 THEN NonFinite
    ELSE LET m == y.re * y.re + y.im * y.im
         IN  IF m = 0 THEN NonFinite
             ELSE Norm((x.re * y.re + x.im * y.im) * y.d,
                       (x.im * y.re - x.re * y.im) * y.d,
                       x.d * m)

\* np.abs(v)**2
AbsSquared(v) == CMul(v, CConj(v))

Min(a, b) == IF a < b THEN a ELSE b

(***************************************************************************)
(* Inputs.                                                                 *)
(***************************************************************************)
SeqsUpTo(S, n) == UNION {[1..m -> S] : m \in 0..n}

PhiVals == {C(0, 0), C(1, 2)}
VVals == {C(0, 0), C(1, 1)}
AreaVals == {1, 2}
KVals == {1, 2}
Densities == {2}
Speeds == {3}
Sizes == -1..MaxN
\* What np.empty may leave in an element.
Garbage == {C(0, 0), C(1, 0), C(0, -1)}
PointSeqs == {<<>>, <<<<0, 0, 1>>>>}
IncidentSeqs == {<<>>, <<C(1, 0)>>}
\* Potentials the parent's extrapolation may produce at a point.
SampleVals == {C(2, -1)}

(***************************************************************************)
(* AcousticProperties (imported by BoundaryData.py).                       *)
(***************************************************************************)
\* p = i * density * c * k * phi
soundPressure(k, phi, c, density) == CMul(C(0, density * c * k), phi)

soundPressureArray(k, aPhi, c, density) ==
    [i \in 1..Len(aPhi) |-> soundPressure(k, aPhi[i], c, density)]

\* 0.5 * Re(p * conj(v))
AcousticIntensity(pressure, velocity) ==
    LET z == CMul(pressure, CConj(velocity))
    IN  CMul(Half, [z EXCEPT !.im = 0])

\* Decibel magnitude, phase and frequency are kept symbolic.
SoundMagnitude(pressure) == [dB_of |-> pressure]
SignalPhase(pressure) == [phase_of |-> pressure]
wavenumberToFrequency(k) == [Hz_of |-> k]

(***************************************************************************)
(* BoundaryCondition / BoundaryIncidence.                                  *)
(***************************************************************************)
\* np.empty(size, dtype = np.complex64): the arrays it may return; none for size < 0,
\* where it raises ValueError.
npEmpty(size) == IF size < 0 THEN {} ELSE [1..size -> Garbage]

\* Variant: f allocated one element short.
BoundaryConditionInitShortF(size) ==
    IF npEmpty(size) = {} THEN {Raise("ValueError")}
    ELSE {Value([alpha |-> a, beta |-> b, f |-> f]) :
             a \in npEmpty(size), b \in npEmpty(size), f \in npEmpty(size - 1)}

BoundaryConditionInit(size) ==
    IF npEmpty(size) = {} THEN {Raise("ValueError")}
    ELSE {Value([alpha |-> a, beta |-> b, f |-> f]) :
             a \in npEmpty(size), b \in npEmpty(size), f \in npEmpty(size)}

BoundaryIncidenceInit(size) ==
    IF npEmpty(size) = {} THEN {Raise("ValueError")}
    ELSE {Value([phi |-> p, v |-> v]) : p \in npEmpty(size), v \in npEmpty(size)}

\* The boundary condition the solver hands to the solve step for its n elements.
solverCondition(n) ==
    [alpha |-> [i \in 1..n |-> C(0, 0)],
     beta  |-> [i \in 1..n |-> C(1, 0)],
     f     |-> [i \in 1..n |-> C(0, 0)]]

(***************************************************************************)
(* BoundarySolution.                                                       *)
(***************************************************************************)
\* self.parent is a reference to the solver, the state variable parent.
BoundarySolutionInit(parentRef, boundaryCondition, k, aPhi, aV) ==
    [parent |-> parentRef,
     boundaryCondidtion |-> boundaryCondition,
     k |-> k,
     aPhi |-> aPhi,
     aV |-> aV]

\* Reading the attributes `names` of `self` in order: the first one that was never
\* set raises AttributeError, otherwise the values read.
RECURSIVE readAttrs(_, _)
readAttrs(self, names) ==
    IF names = <<>> THEN Value(<<>>)
    ELSE IF Head(names) \notin DOMAIN self THEN Raise("AttributeError")
    ELSE LET rest == readAttrs(self, Tail(names))
         IN  IF rest.kind = "error" THEN rest
             ELSE Value(<<self[Head(names)]>> \o rest.val)

BoundarySolutionRepr(self) ==
    readAttrs(self, <<"parent", "boundaryCondition", "k", "aPhi", "aV">>)

\* Variant: the pressure taken from the velocities.
pressureOfVelocity(self) ==
    Value(soundPressureArray(self.k, self.aV, parent.c, parent.density))

pressure(self) ==
    Value(soundPressureArray(self.k, self.aPhi, parent.c, parent.density))

pressureDecibell(self) ==
    LET p == pressure(self).val
    IN  Value([i \in 1..Len(p) |-> SoundMagnitude(p[i])])

\* The loop of radiationRatio from index i on (1-based here).
RECURSIVE radiationLoop(_, _, _, _)
radiationLoop(self, i, power, bpower) ==
    IF i > Len(self.aPhi) THEN [raised |-> FALSE, power |-> power, bpower |-> bpower]
    ELSE IF i > Len(self.aV) THEN [raised |-> TRUE, power |-> power, bpower |-> bpower]
    ELSE LET p == soundPressure(self.k, self.aPhi[i], parent.c, parent.density)
         IN  radiationLoop(self, i + 1,
                 CAdd(power, AcousticIntensity(p, self.aV[i])),
                 CAdd(bpower, CMul(Real(parent.density * parent.c), AbsSquared(self.aV[i]))))

\* Variant: the loop starts one element late.
radiationRatioSkipFirst(self) ==
    LET acc == radiationLoop(self, 2, Zero, Zero)
    IN  IF acc.raised THEN Raise("IndexError")
        ELSE IF Len(self.aPhi) = 0 THEN Raise("ZeroDivisionError")
        ELSE Value(CDiv(CMul(Real(2), acc.power), acc.bpower))

radiationRatio(self) ==
    LET acc == radiationLoop(self, 1, Zero, Zero)
    IN  IF acc.raised THEN Raise("IndexError")
        \* no iteration: power and bpower are still Python floats, 2 * 0.0 / 0.0
        ELSE IF Len(self.aPhi) = 0 THEN Raise("ZeroDivisionError")
        ELSE Value(CDiv(CMul(Real(2), acc.power), acc.bpower))

\* zip() stops at the shortest of its arguments.
zipLen(p, a, v) == Min(Len(p), Min(Len(a), Len(v)))

RECURSIVE impedanceLoop(_, _, _, _, _, _)
impedanceLoop(p, a, v, i, n, Zm) ==
    IF i > n THEN Zm
    ELSE impedanceLoop(p, a, v, i + 1, n, CAdd(Zm, CDiv(CMul(p[i], Real(a[i])), v[i])))

\* Variant: the element areas are all taken as 1.
mechanicalImpedanceNoArea(self) ==
    LET p == pressure(self).val
        a == [i \in 1..Len(parent.area) |-> 1]
        v == self.aV
    IN  Value(impedanceLoop(p, a, v, 1, zipLen(p, a, v), Zero))

mechanicalImpedance(self) ==
    LET p == pressure(self).val
        a == parent.area
        v == self.aV
    IN  Value(impedanceLoop(p, a, v, 1, zipLen(p, a, v), Zero))

RECURSIVE strRows(_, _)
strRows(self, i) ==
    IF i > Len(self.aPhi) THEN Value(<<>>)
    ELSE IF i > Len(self.aV) THEN Raise("IndexError")
    ELSE LET p == soundPressure(self.k, self.aPhi[i], parent.c, parent.density)
             row == <<i, self.aPhi[i], p, self.aV[i], AcousticIntensity(p, self.aV[i])>>
             rest == strRows(self, i + 1)
         IN  IF rest.kind = "error" THEN rest ELSE Value(<<row>> \o rest.val)

BoundarySolutionStr(self) ==
    LET rows == strRows(self, 1)
    IN  IF rows.kind = "error" THEN rows
        ELSE Value([header |-> <<parent.density, parent.c, self.k, wavenumberToFrequency(self.k)>>,
                    rows |-> rows.val])

\* Variant: the interior request sent to the exterior routine.
solveInteriorViaExterior(self, aIncidentInteriorPhi, aInteriorPoints) ==
    <<[routine |-> "solveExterior", args |-> <<self, aIncidentInteriorPhi, aInteriorPoints>>]>>

\* The calls solveInterior / solveExterior make on the parent.
solveInterior(self, aIncidentInteriorPhi, aInteriorPoints) ==
    <<[routine |-> "solveInterior", args |-> <<self, aIncidentInteriorPhi, aInteriorPoints>>]>>

solveExterior(self, aIncidentExteriorPhi, aExteriorPoints) ==
    <<[routine |-> "solveExterior", args |-> <<self, aIncidentExteriorPhi, aExteriorPoints>>]>>

(***************************************************************************)
(* SampleSolution.                                                         *)
(***************************************************************************)
SampleSolutionInit(boundarySolution, aPhi) ==
    [boundarySolution |-> boundarySolution, aPhi |-> aPhi]

SampleSolutionRepr(self) == readAttrs(self, <<"parent", "aPhi">>)

SampleSolutionStr(self) ==
    Value([i \in 1..Len(self.aPhi) |->
        LET p == soundPressure(self.boundarySolution.k, self.aPhi[i], parent.c, parent.density)
        IN  <<i, self.aPhi[i], p, SoundMagnitude(p), SignalPhase(p)>>])

\* The parent's field extrapolation: one potential value per point.
parentSolve(boundarySolution, incidentPhi, points) ==
    {SampleSolutionInit(boundarySolution, aPhi) : aPhi \in [1..Len(points) -> SampleVals]}

(***************************************************************************)
(* State machine.  out is the last call with its outcome, calls the calls  *)
(* that call made on the parent solver.                                    *)
(***************************************************************************)
Call(op, args, ret) == [op |-> op, args |-> args, ret |-> ret]

Parents ==
    {[density |-> d, c |-> c, area |-> a] :
        d \in Densities, c \in Speeds, a \in SeqsUpTo(AreaVals, MaxN)}

\* The solver exists, nothing is solved yet.
Init ==
    /\ parent \in Parents
    /\ sol = None
    /\ sample = None
    /\ out = None
    /\ calls = <<>>

NewBoundarySolution ==
    /\ sol = None
    /\ \E k \in KVals, aPhi \in SeqsUpTo(PhiVals, MaxN), aV \in SeqsUpTo(VVals, MaxN) :
          LET bc == solverCondition(Len(parent.area))
          IN  /\ sol' = BoundarySolutionInit("parent", bc, k, aPhi, aV)
              /\ out' = Call("BoundarySolution", <<"parent", bc, k, aPhi, aV>>, Value("self"))
    /\ calls' = <<>>
    /\ UNCHANGED <<parent, sample>>

BoundarySolutionReprOp ==
    /\ sol # None
    /\ out' = Call("BoundarySolution.__repr__", <<>>, BoundarySolutionRepr(sol))
    /\ calls' = <<>>
    /\ UNCHANGED <<parent, sol, sample>>

BoundarySolutionStrOp ==
    /\ sol # None
    /\ out' = Call("BoundarySolution.__str__", <<>>, BoundarySolutionStr(sol))
    /\ calls' = <<>>
    /\ UNCHANGED <<parent, sol, sample>>

SolveInteriorOp ==
    /\ sol # None
    /\ \E inc \in IncidentSeqs, pts \in PointSeqs :
          LET made == solveInterior(sol, inc, pts)
              last == made[Len(made)]
          IN  \E r \in parentSolve(last.args[1], last.args[2], last.args[3]) :
                /\ calls' = [i \in 1..Len(made) |-> [routine |-> made[i].routine,
                                                     args |-> made[i].args,
                                                     returned |-> r]]
                /\ out' = Call("solveInterior", <<inc, pts>>, Value(r))
                /\ sample' = r
    /\ UNCHANGED <<parent, sol>>

SolveExteriorOp ==
    /\ sol # None
    /\ \E inc \in IncidentSeqs, pts \in PointSeqs :
          LET made == solveExterior(sol, inc, pts)
              last == made[Len(made)]
          IN  \E r \in parentSolve(last.args[1], last.args[2], last.args[3]) :
                /\ calls' = [i \in 1..Len(made) |-> [routine |-> made[i].routine,
                                                     args |-> made[i].args,
                                                     returned |-> r]]
                /\ out' = Call("solveExterior", <<inc, pts>>, Value(r))
                /\ sample' = r
    /\ UNCHANGED <<parent, sol>>

PressureOp ==
    /\ sol # None
    /\ out' = Call("pressure", <<>>, pressure(sol))
    /\ calls' = <<>>
    /\ UNCHANGED <<parent, sol, sample>>

PressureDecibellOp ==
    /\ sol # None
    /\ out' = Call("pressureDecibell", <<>>, pressureDecibell(sol))
    /\ calls' = <<>>
    /\ UNCHANGED <<parent, sol, sample>>

RadiationRatioOp ==
    /\ sol # None
    /\ out' = Call("radiationRatio", <<>>, radiationRatio(sol))
    /\ calls' = <<>>
    /\ UNCHANGED <<parent, sol, sample>>

\* Variant: the velocities are consumed by the call.
MechanicalImpedanceOpConsuming ==
    /\ sol # None
    /\ out' = Call("mechanicalImpedance", <<>>, mechanicalImpedance(sol))
    /\ sol' = [sol EXCEPT !.aV = <<>>]
    /\ calls' = <<>>
    /\ UNCHANGED <<parent, sample>>

MechanicalImpedanceOp ==
    /\ sol # None
    /\ out' = Call("mechanicalImpedance", <<>>, mechanicalImpedance(sol))
    /\ calls' = <<>>
    /\ UNCHANGED <<parent, sol, sample>>

SampleSolutionReprOp ==
    /\ sample # None
    /\ out' = Call("SampleSolution.__repr__", <<>>, SampleSolutionRepr(sample))
    /\ calls' = <<>>
    /\ UNCHANGED <<parent, sol, sample>>

SampleSolutionStrOp ==
    /\ sample # None
    /\ out' = Call("SampleSolution.__str__", <<>>, SampleSolutionStr(sample))
    /\ calls' = <<>>
    /\ UNCHANGED <<parent, sol, sample>>

Next ==
    \/ NewBoundarySolution
    \/ BoundarySolutionReprOp
    \/ BoundarySolutionStrOp
    \/ SolveInteriorOp
    \/ SolveExteriorOp
    \/ PressureOp
    \/ PressureDecibellOp
    \/ RadiationRatioOp
    \/ MechanicalImpedanceOp
    \/ SampleSolutionReprOp
    \/ SampleSolutionStrOp

Spec == Init /\ [][Next]_vars

(***************************************************************************)
(* The containers on their own: one construction call per behaviour.       *)
(***************************************************************************)
InitLeaf ==
    /\ parent = None
    /\ sol = None
    /\ sample = None
    /\ out = None
    /\ calls = <<>>

NewBoundaryCondition ==
    /\ out = None
    /\ \E size \in Sizes :
          \E r \in BoundaryConditionInit(size) :
             out' = Call("BoundaryCondition", <<size>>, r)
    /\ UNCHANGED <<parent, sol, sample, calls>>

NewBoundaryIncidence ==
    /\ out = None
    /\ \E size \in Sizes :
          \E r \in BoundaryIncidenceInit(size) :
             out' = Call("BoundaryIncidence", <<size>>, r)
    /\ UNCHANGED <<parent, sol, sample, calls>>

NextLeaf ==
    \/ NewBoundaryCondition
    \/ NewBoundaryIncidence

SpecLeaf == InitLeaf /\ [][NextLeaf]_vars

(***************************************************************************)
(* Properties.                                                             *)
(***************************************************************************)
Did(op) == out # None /\ out.op = op
Returned(op) == Did(op) /\ out.ret.kind = "value"

AllNonZero(a) == \A i \in 1..Len(a) : ~IsZero(a[i])
AllZero(a) == \A i \in 1..Len(a) : IsZero(a[i])

\* Sum of the terms f[i], i in S, of an indexed family.
RECURSIVE SumTerms(_, _)
SumTerms(f, S) ==
    IF S = {} THEN Zero
    ELSE LET i == CHOOSE x \in S : TRUE
         IN  CAdd(f[i], SumTerms(f, S \ {i}))

Scaled(a, z) == [i \in 1..Len(a) |-> CMul(z, a[i])]

LengthsAgree == Len(sol.aPhi) = Len(sol.aV) /\ Len(sol.aV) = Len(parent.area)

\* C1: whenever some element of a solution (of matching lengths) has aV[i] = 0,
\* mechanicalImpedance() ends in an error (DegenerateDivision) and never returns a
\* value.
C1_ZeroVelocityFails ==
    (Did("mechanicalImpedance") /\ LengthsAgree /\ ~AllNonZero(sol.aV))
        => out.ret.kind = "error"

\* C2: whenever the denominator sum of rho c |aV[i]|^2 is zero (all velocities zero,
\* the empty solution included; aPhi and aV of one length), radiationRatio() fails with an error instead of
\* returning the quotient.
C2_ZeroDenominatorFails ==
    (Did("radiationRatio") /\ Len(sol.aPhi) = Len(sol.aV) /\ AllZero(sol.aV))
        => out.ret.kind = "error"

\* C3: whenever the lengths of aPhi, aV and parent.elementArea() disagree,
\* radiationRatio() and mechanicalImpedance() report an error and return no result
\* computed over a prefix of the elements.
C3_MismatchReported ==
    ((Did("radiationRatio") \/ Did("mechanicalImpedance")) /\ ~LengthsAgree)
        => out.ret.kind = "error"

\* C4: BoundaryCondition(N) and BoundaryIncidence(N) succeed for N >= 0 with every
\* field of length exactly N, and fail with an error, yielding no object, for N < 0.
C4_SizedConstruction ==
    out # None =>
        LET N == out.args[1]
            fields == IF out.op = "BoundaryCondition" THEN {"alpha", "beta", "f"}
                      ELSE {"phi", "v"}
        IN  /\ N >= 0 => /\ out.ret.kind = "value"
                         /\ DOMAIN out.ret.val = fields
                         /\ \A a \in fields : Len(out.ret.val[a]) = N
            /\ N < 0 => out.ret.kind = "error"

C4_Witness ==
    /\ Returned("BoundaryCondition")
    /\ out.args[1] = MaxN
    /\ Len(out.ret.val.f) = MaxN

\* C5: once constructed, a BoundarySolution's fields are changed by no operation, and
\* a SampleSolution's fields are changed by no SampleSolution operation.
C5_FieldsUnchanged ==
    [][/\ sol # None => sol' = sol
       /\ (SampleSolutionReprOp \/ SampleSolutionStrOp) => sample' = sample]_vars

C5_Witness ==
    /\ Did("SampleSolution.__str__")
    /\ Len(sol.aPhi) = MaxN
    /\ Len(sample.aPhi) > 0

\* C6: solveInterior / solveExterior make exactly one call, to the parent's routine of
\* the same name, with (self, incidentPhi, points) unmodified, and return what it
\* returned.
C6_PureDelegation ==
    \A op \in {"solveInterior", "solveExterior"} :
        Did(op) =>
            /\ Len(calls) = 1
            /\ calls[1].routine = op
            /\ calls[1].args = <<sol, out.args[1], out.args[2]>>
            /\ out.ret = Value(calls[1].returned)

C6_Witness ==
    /\ Did("solveInterior")
    /\ out.args[1] # <<>>
    /\ out.args[2] # <<>>
    /\ Len(sol.aPhi) > 0

\* C7: with a non-zero denominator, radiationRatio() is unchanged when aPhi and aV are
\* both doubled, and equals 2 * sum of the intensities / sum of rho c |aV[i]|^2 over
\* all elements.
C7_DoublingInvariant ==
    (Returned("radiationRatio") /\ IsFinite(out.ret.val)) =>
        /\ radiationRatio([sol EXCEPT !.aPhi = Scaled(sol.aPhi, Real(2)),
                                      !.aV = Scaled(sol.aV, Real(2))]) = out.ret
        /\ Len(sol.aPhi) = Len(sol.aV) =>
              LET N == Len(sol.aPhi)
                  p == [i \in 1..N |->
                           soundPressure(sol.k, sol.aPhi[i], parent.c, parent.density)]
                  I == [i \in 1..N |-> AcousticIntensity(p[i], sol.aV[i])]
                  B == [i \in 1..N |->
                           CMul(Real(parent.density * parent.c), AbsSquared(sol.aV[i]))]
              IN  out.ret.val = CDiv(CMul(Real(2), SumTerms(I, 1..N)), SumTerms(B, 1..N))

C7_Witness ==
    /\ Returned("radiationRatio")
    /\ IsFinite(out.ret.val)
    /\ ~IsZero(out.ret.val)
    /\ Len(sol.aPhi) = MaxN
    /\ Len(sol.aV) = MaxN

\* C8: with all aV[i] non-zero and matching lengths, mechanicalImpedance() is the sum
\* of pressure_i * area_i / aV[i] over all N elements; pressure / v for one element of
\* unit area; 0 for N = 0.
C8_ImpedanceSum ==
    (Did("mechanicalImpedance") /\ AllNonZero(sol.aV) /\ LengthsAgree) =>
        LET N == Len(sol.aV)
            p == [i \in 1..N |->
                     soundPressure(sol.k, sol.aPhi[i], parent.c, parent.density)]
            T == [i \in 1..N |-> CDiv(CMul(p[i], Real(parent.area[i])), sol.aV[i])]
        IN  /\ out.ret = Value(SumTerms(T, 1..N))
            /\ (N = 1 /\ parent.area[1] = 1) => out.ret.val = CDiv(p[1], sol.aV[1])
            /\ N = 0 => out.ret.val = Zero

C8_Witness ==
    /\ Returned("mechanicalImpedance")
    /\ AllNonZero(sol.aV)
    /\ LengthsAgree
    /\ Len(sol.aV) = MaxN
    /\ ~IsZero(out.ret.val)
    /\ parent.area[1] # parent.area[MaxN]

\* Factors pressure() is scaled by.
ZVals == {C(0, 0), C(2, 0), C(0, 1), C(1, -1), Half}

\* C9: pressure() returns N values, linear in aPhi: scaling every aPhi[i] by z scales
\* every pressure by z, and an all-zero aPhi gives all-zero pressures.
C9_PressureLinear ==
    Did("pressure") =>
        /\ out.ret.kind = "value"
        /\ Len(out.ret.val) = Len(sol.aPhi)
        /\ \A z \in ZVals :
              pressure([sol EXCEPT !.aPhi = Scaled(sol.aPhi, z)]).val
                  = Scaled(out.ret.val, z)
        /\ AllZero(sol.aPhi) => AllZero(out.ret.val)

C9_Witness ==
    /\ Returned("pressure")
    /\ Len(sol.aPhi) = MaxN
    /\ AllNonZero(out.ret.val)
    /\ ~AllNonZero(sol.aV)

\* C10: __repr__ reads only attributes the constructor set, so it completes on every
\* constructed BoundarySolution and SampleSolution without a missing-attribute error.
C10_ReprCompletes ==
    (Did("BoundarySolution.__repr__") \/ Did("SampleSolution.__repr__"))
        => out.ret.kind = "value"

====
